---- MODULE Spec2Model ----
(***************************************************************************)
(* A model of the RevocationList2020 registry (package rl2020).            *)
(*                                                                         *)
(* A bitSet is a Go byte slice.  A slice is a reference to a backing       *)
(* array, so the model keeps the arrays in a heap and a registry value     *)
(* holds an address.  An array is [n |-> its length in bytes, nz |-> the   *)
(* set of <<position, value>> of its non-zero bytes]: the arrays are 16 to *)
(* 128 KB long and almost everywhere zero.                                 *)
(*                                                                         *)
(* Strings that the code inspects (identifiers) are sequences of one-      *)
(* character strings.  The encoded list is the sequence of its base64      *)
(* characters, each character given by its value in the RFC 4648 alphabet  *)
(* (0..63), PadChar for '=', NewlineChar for '\n' and BadChar for a        *)
(* character outside the alphabet.                                         *)
(*                                                                         *)
(* compress/zlib is modelled as a stream with the zlib framing (a two byte *)
(* header checked as RFC 1950 says, the body, the big-endian Adler-32 of   *)
(* the uncompressed bytes) whose body is a run-length code instead of      *)
(* DEFLATE: a sequence of four byte blocks <<value, count>> (count on 24   *)
(* bits, big-endian) closed by a block of count zero.  Like DEFLATE, it is *)
(* lossless, one byte sequence has several encodings, and a truncated or   *)
(* altered stream is detected by the framing or by the checksum.           *)
(***************************************************************************)
EXTENDS Integers, Sequences, FiniteSets, TLC

maxBitSetSize == 128
minBitSetSize == 16
TypeRevocationList2020 == "RevocationList2020"
TypeRevocationList2020Status == "RevocationList2020status"
Revoke == TRUE
Reset == FALSE

\* The number of bytes of one KB of bit set.
KB == 1024

\* Go's nil error.
Nil == "nil"

-----------------------------------------------------------------------------
(* Strings *)

Space == " "

RECURSIVE TrimLeft(_)
TrimLeft(s) ==
    IF s # <<>> /\ Head(s) = Space THEN TrimLeft(Tail(s)) ELSE s

RECURSIVE TrimRight(_)
TrimRight(s) ==
    IF s # <<>> /\ s[Len(s)] = Space THEN TrimRight(SubSeq(s, 1, Len(s) - 1)) ELSE s

\* strings.TrimSpace
TrimSpace(s) == TrimRight(TrimLeft(s))

Digit(d) == <<"0", "1", "2", "3", "4", "5", "6", "7", "8", "9">>[d + 1]

RECURSIVE Digits(_)
Digits(n) == IF n < 10 THEN <<Digit(n)>> ELSE Digits(n \div 10) \o <<Digit(n % 10)>>

\* fmt.Sprint of an int
Itoa(n) == IF n < 0 THEN <<"-">> \o Digits(0 - n) ELSE Digits(n)

-----------------------------------------------------------------------------
(* bitSet *)

ByteAt(bs, pos) ==
    IF \E e \in bs.nz : e[1] = pos
    THEN (CHOOSE e \in bs.nz : e[1] = pos)[2]
    ELSE 0

\* bs[pos] = v
StoreByte(bs, pos, v) ==
    [bs EXCEPT !.nz = {e \in @ : e[1] # pos} \cup (IF v = 0 THEN {} ELSE {<<pos, v>>})]

\* uint8(1) << j
Shl(j) == 2 ^ j

\* b & (uint8(1) << j) != 0
HasBit(b, j) == (b \div Shl(j)) % 2 = 1

newBitSet(kbSize) == [n |-> kbSize * KB, nz |-> {}]

\* Go's integer division truncates toward zero
GoDiv(a, b) == IF a >= 0 THEN a \div b ELSE 0 - ((0 - a) \div b)
GoMod(a, b) == a - b * GoDiv(a, b)

getBit(bs, index) ==
    LET pos == GoDiv(index, 8)
        j   == GoMod(index, 8)
    IN  HasBit(ByteAt(bs, pos), j)

setBitToggles(bs, index, value) ==
    LET pos == GoDiv(index, 8)
        j   == GoMod(index, 8)
        b   == ByteAt(bs, pos)
    IN  StoreByte(bs, pos, IF HasBit(b, j) THEN b - Shl(j) ELSE b + Shl(j))

setBit(bs, index, value) ==
    LET pos == GoDiv(index, 8)
        j   == GoMod(index, 8)
        b   == ByteAt(bs, pos)
    IN  IF value
        THEN StoreByte(bs, pos, IF HasBit(b, j) THEN b ELSE b + Shl(j))
        ELSE StoreByte(bs, pos, IF HasBit(b, j) THEN b - Shl(j) ELSE b)

len(bs) == 8 * bs.n

size(bs) == bs.n \div KB

-----------------------------------------------------------------------------
(* compress/zlib *)

AdlerMod == 65521

RECURSIVE SumSet(_)
\* The sum, modulo AdlerMod, of the second components of the pairs of S.
SumSet(S) ==
    IF S = {} THEN 0
    ELSE LET x == CHOOSE y \in S : TRUE IN (x[2] + SumSet(S \ {x})) % AdlerMod

\* The Adler-32 of the bytes of bs, as its four bytes, big-endian:
\* a = 1 + the sum of the bytes, b = the sum of the successive values of a.
Adler32(bs) ==
    LET a == (1 + SumSet({<<e[1], e[2] % AdlerMod>> : e \in bs.nz})) % AdlerMod
        b == ((bs.n % AdlerMod)
              + SumSet({<<e[1], (e[2] * ((bs.n - e[1]) % AdlerMod)) % AdlerMod>> : e \in bs.nz}))
             % AdlerMod
    IN  <<b \div 256, b % 256, a \div 256, a % 256>>

U24(c) == <<c \div 65536, (c \div 256) % 256, c % 256>>

Min(S) == CHOOSE x \in S : \A y \in S : x <= y

RECURSIVE RunEnd(_, _, _)
\* The end (exclusive) of the longest run of bytes v that starts at p.
RunEnd(bs, p, v) ==
    IF v = 0
    THEN Min({e[1] : e \in {f \in bs.nz : f[1] > p}} \cup {bs.n})
    ELSE IF p + 1 < bs.n /\ ByteAt(bs, p + 1) = v THEN RunEnd(bs, p + 1, v) ELSE p + 1

RECURSIVE Deflate(_, _)
\* The body written for the bytes of bs from position p on.
Deflate(bs, p) ==
    IF p >= bs.n THEN <<0, 0, 0, 0>>
    ELSE LET v == ByteAt(bs, p)
             e == RunEnd(bs, p, v)
         IN  <<v>> \o U24(e - p) \o Deflate(bs, e)

zlibHeader == <<120, 156>>

\* zlib.NewWriter(&bb); w.Write(set); w.Close(): the bytes left in bb.
zlibWrite(set) == zlibHeader \o Deflate(set, 0) \o Adler32(set)

ErrUnexpectedEOF == "unexpected EOF"
ErrHeader == "zlib: invalid header"
ErrChecksum == "zlib: invalid checksum"
ErrCorrupt == "flate: corrupt input"
EOF == "EOF"

\* A nil byte slice.
NilSlice == [n |-> 0, nz |-> {}]

\* out followed by c bytes v
AppendRun(out, v, c) ==
    [n  |-> out.n + c,
     nz |-> out.nz \cup (IF v = 0 THEN {} ELSE {<<q, v>> : q \in out.n .. (out.n + c - 1)})]

RECURSIVE Inflate(_, _, _)
\* The reads of the zlib reader, to the end of the stream or to the first
\* error: the body from byte p of b on, then the checksum.  out is what has
\* been read so far.  The result is what io.ReadAll returns, with EOF for
\* the end of a stream whose checksum is right.
Inflate(b, p, out) ==
    IF p + 3 > Len(b) THEN [bs |-> out, err |-> ErrUnexpectedEOF]
    ELSE LET v == b[p]
             c == b[p + 1] * 65536 + b[p + 2] * 256 + b[p + 3]
         IN  IF c # 0 THEN Inflate(b, p + 4, AppendRun(out, v, c))
             ELSE IF v # 0 THEN [bs |-> out, err |-> ErrCorrupt]
             ELSE IF p + 7 > Len(b) THEN [bs |-> out, err |-> ErrUnexpectedEOF]
             ELSE IF SubSeq(b, p + 4, p + 7) # Adler32(out)
                  THEN [bs |-> out, err |-> ErrChecksum]
                  ELSE [bs |-> out, err |-> EOF]

\* zlib.NewReader(bytes.NewReader(b)): it reads and checks the header
\* (CM = 8, CINFO <= 7, FCHECK); err is the error of the reader, ferr the
\* error of its flate decompressor.
zlibNewReader(b) ==
    IF Len(b) < 2 THEN [z |-> [r |-> b, err |-> ErrUnexpectedEOF, ferr |-> Nil], err |-> ErrUnexpectedEOF]
    ELSE IF b[1] % 16 # 8 \/ b[1] \div 16 > 7 \/ (b[1] * 256 + b[2]) % 31 # 0
         THEN [z |-> [r |-> b, err |-> ErrHeader, ferr |-> Nil], err |-> ErrHeader]
         ELSE [z |-> [r |-> b, err |-> Nil, ferr |-> Nil], err |-> Nil]

zlibCloseReleases(z) ==
    [z |-> [z EXCEPT !.err = EOF], err |-> Nil]

\* zr.Close(): an error the reader already has, other than EOF, is returned;
\* else the reader takes the error of the decompressor's Close, which is the
\* decompressor's error unless that is EOF.  Close releases nothing and does
\* not mark the reader closed.
zlibClose(z) ==
    IF z.err # Nil /\ z.err # EOF THEN [z |-> z, err |-> z.err]
    ELSE LET e == IF z.ferr = EOF THEN Nil ELSE z.ferr
         IN  [z |-> [z EXCEPT !.err = e], err |-> e]

\* io.ReadAll(zr): Read returns the reader's error when it has one; ReadAll
\* returns what was read and the error, nil for EOF.
ioReadAll(z) ==
    LET r == IF z.err # Nil THEN [bs |-> NilSlice, err |-> z.err]
             ELSE Inflate(z.r, 3, NilSlice)
    IN  [r EXCEPT !.err = IF @ = EOF THEN Nil ELSE @]

-----------------------------------------------------------------------------
(* encoding/base64, StdEncoding *)

PadChar == 64
NewlineChar == 65
BadChar == 66

ErrBase64 == "illegal base64 data"

RECURSIVE EncodeToString(_)
EncodeToString(b) ==
    IF Len(b) = 0 THEN <<>>
    ELSE IF Len(b) = 1
         THEN <<b[1] \div 4, (b[1] % 4) * 16, PadChar, PadChar>>
    ELSE IF Len(b) = 2
         THEN <<b[1] \div 4, (b[1] % 4) * 16 + b[2] \div 16, (b[2] % 16) * 4, PadChar>>
    ELSE <<b[1] \div 4, (b[1] % 4) * 16 + b[2] \div 16, (b[2] % 16) * 4 + b[3] \div 64, b[3] % 64>>
         \o EncodeToString(SubSeq(b, 4, Len(b)))

\* DecodeString ignores the new line characters.
StripNewlines(s) == SelectSeq(s, LAMBDA c : c # NewlineChar)

RECURSIVE DecodeQuads(_)
DecodeQuads(s) ==
    IF Len(s) = 0 THEN [b |-> <<>>, err |-> Nil]
    ELSE IF Len(s) < 4 THEN [b |-> <<>>, err |-> ErrBase64]
    ELSE LET c1 == s[1]
             c2 == s[2]
             c3 == s[3]
             c4 == s[4]
         IN  IF c1 > 63 \/ c2 > 63 THEN [b |-> <<>>, err |-> ErrBase64]
             ELSE IF c3 = PadChar
                  THEN IF c4 = PadChar /\ Len(s) = 4
                       THEN [b |-> <<c1 * 4 + c2 \div 16>>, err |-> Nil]
                       ELSE [b |-> <<>>, err |-> ErrBase64]
             ELSE IF c3 > 63 THEN [b |-> <<>>, err |-> ErrBase64]
             ELSE IF c4 = PadChar
                  THEN IF Len(s) = 4
                       THEN [b |-> <<c1 * 4 + c2 \div 16, (c2 % 16) * 16 + c3 \div 4>>, err |-> Nil]
                       ELSE [b |-> <<>>, err |-> ErrBase64]
             ELSE IF c4 > 63 THEN [b |-> <<>>, err |-> ErrBase64]
             ELSE LET rest == DecodeQuads(SubSeq(s, 5, Len(s)))
                  IN  IF rest.err # Nil THEN rest
                      ELSE [b   |-> <<c1 * 4 + c2 \div 16, (c2 % 16) * 16 + c3 \div 4,
                                      (c3 % 4) * 64 + c4>> \o rest.b,
                            err |-> Nil]

DecodeString(s) == DecodeQuads(StripNewlines(s))

-----------------------------------------------------------------------------
(* pack, unpack *)

\* The writes go to a bytes.Buffer and do not fail: pack's err is always nil
\* and the model leaves it out.
pack(set) == EncodeToString(zlibWrite(set))

unpack(s) ==
    LET d == DecodeString(s)
    IN  IF d.err # Nil THEN [bs |-> NilSlice, err |-> d.err]
        ELSE LET zr == zlibNewReader(d.b)
             IN  IF zr.err # Nil THEN [bs |-> NilSlice, err |-> zr.err]
                 ELSE LET c == zlibClose(zr.z)
                      IN  IF c.err # Nil THEN [bs |-> NilSlice, err |-> c.err]
                          ELSE ioReadAll(c.z)

-----------------------------------------------------------------------------
(* Errors of the package: the format of fmt.Errorf and its arguments; an   *)
(* error of a library is its message.                                      *)

NoErr == [msg |-> Nil, args |-> <<>>]
Errorf(msg, args) == [msg |-> msg, args |-> args]

ErrSize == "size must be between %d and %d, got %d"
ErrNoID == "revocation list has no ID"
ErrType == "unsupported type %v, expected %v"
ErrIndex == "credential index out of range 0-%d: %v"
ErrStatusID == "credential status ID is empty"
ErrWrongList == "wrong revocation list, expected %v, got %v"
ErrJSON == "json: cannot unmarshal"

-----------------------------------------------------------------------------
(* CredentialStatus *)

\* CredentialStatusJSON.Coordinates
Coordinates(cs) == <<cs.RevocationListCredential, cs.RevocationListIndex>>

\* CredentialStatusJSON.TypeDef
TypeDef(cs) == <<cs.ID, cs.Type>>

NewCredentialStatus(rlCredential, rlIndex) ==
    [ID                       |-> rlCredential \o <<"/">> \o Itoa(rlIndex),
     Type                     |-> TypeRevocationList2020Status,
     RevocationListCredential |-> rlCredential,
     RevocationListIndex      |-> rlIndex]

-----------------------------------------------------------------------------
(* RevocationList2020.  The operators take the registry value rl (ID, Type, *)
(* EncodedList) and the contents bs of the array its bitSet refers to, and  *)
(* return what the function returns and leaves in that array.              *)

\* The zero value of the struct's exported fields.
ZeroList == [ID |-> <<>>, Type |-> "", EncodedList |-> <<>>]

NewRevocationListOffByOne(id, kbSize) ==
    IF kbSize >= maxBitSetSize \/ kbSize <= minBitSetSize
    THEN [rl |-> ZeroList, bs |-> NilSlice,
          err |-> Errorf(ErrSize, <<minBitSetSize, maxBitSetSize, kbSize>>)]
    ELSE LET bs == newBitSet(kbSize)
         IN  [rl  |-> [ID |-> id, Type |-> TypeRevocationList2020, EncodedList |-> pack(bs)],
              bs  |-> bs,
              err |-> NoErr]

NewRevocationList(id, kbSize) ==
    IF kbSize > maxBitSetSize \/ kbSize < minBitSetSize
    THEN [rl |-> ZeroList, bs |-> NilSlice,
          err |-> Errorf(ErrSize, <<minBitSetSize, maxBitSetSize, kbSize>>)]
    ELSE LET bs == newBitSet(kbSize)
         IN  [rl  |-> [ID |-> id, Type |-> TypeRevocationList2020, EncodedList |-> pack(bs)],
              bs  |-> bs,
              err |-> NoErr]

Capacity(bs) == len(bs)

Size(bs) == size(bs)

\* json.Unmarshal(data, &rl): data is a document [syntax |-> whether it is
\* JSON that fits the struct, id, type, encodedList]; a field the document
\* lacks is the zero value.
Unmarshal(data) ==
    IF data.syntax
    THEN [rl  |-> [ID |-> data.id, Type |-> data.type, EncodedList |-> data.encodedList],
          err |-> NoErr]
    ELSE [rl |-> ZeroList, err |-> Errorf(ErrJSON, <<>>)]

NewRevocationListFromJSONNoTrim(data) ==
    LET j == Unmarshal(data)
        u == unpack(j.rl.EncodedList)
    IN  IF j.err # NoErr THEN [rl |-> j.rl, bs |-> NilSlice, err |-> j.err]
        ELSE IF j.rl.ID = <<>>
             THEN [rl |-> j.rl, bs |-> NilSlice, err |-> Errorf(ErrNoID, <<>>)]
        ELSE IF j.rl.Type # TypeRevocationList2020
             THEN [rl |-> j.rl, bs |-> NilSlice,
                   err |-> Errorf(ErrType, <<j.rl.Type, TypeRevocationList2020>>)]
        ELSE IF u.err # Nil
             THEN [rl |-> j.rl, bs |-> u.bs, err |-> Errorf(u.err, <<>>)]
        ELSE IF Size(u.bs) > maxBitSetSize \/ Size(u.bs) < minBitSetSize
             THEN [rl |-> j.rl, bs |-> u.bs,
                   err |-> Errorf(ErrSize, <<minBitSetSize, maxBitSetSize, Size(u.bs)>>)]
        ELSE [rl |-> j.rl, bs |-> u.bs, err |-> NoErr]

NewRevocationListFromJSON(data) ==
    LET j == Unmarshal(data)
        u == unpack(j.rl.EncodedList)
    IN  IF j.err # NoErr THEN [rl |-> j.rl, bs |-> NilSlice, err |-> j.err]
        ELSE IF TrimSpace(j.rl.ID) = <<>>
             THEN [rl |-> j.rl, bs |-> NilSlice, err |-> Errorf(ErrNoID, <<>>)]
        ELSE IF j.rl.Type # TypeRevocationList2020
             THEN [rl |-> j.rl, bs |-> NilSlice,
                   err |-> Errorf(ErrType, <<j.rl.Type, TypeRevocationList2020>>)]
        ELSE IF u.err # Nil
             THEN [rl |-> j.rl, bs |-> u.bs, err |-> Errorf(u.err, <<>>)]
        ELSE IF Size(u.bs) > maxBitSetSize \/ Size(u.bs) < minBitSetSize
             THEN [rl |-> j.rl, bs |-> u.bs,
                   err |-> Errorf(ErrSize, <<minBitSetSize, maxBitSetSize, Size(u.bs)>>)]
        ELSE [rl |-> j.rl, bs |-> u.bs, err |-> NoErr]

OutOfRange(bs, i) == i < 0 \/ i >= Capacity(bs)

RECURSIVE SetBits(_, _, _)
\* for _, ci := range indexes { rl.bitSet.setBit(ci, action) }
SetBits(bs, action, indexes) ==
    IF indexes = <<>> THEN bs
    ELSE SetBits(setBit(bs, Head(indexes), action), action, Tail(indexes))

RECURSIVE UpdateOnePass(_, _, _, _)
UpdateOnePass(rl, bs, action, indexes) ==
    IF indexes = <<>>
    THEN [rl |-> [rl EXCEPT !.EncodedList = pack(bs)], bs |-> bs, err |-> NoErr]
    ELSE IF OutOfRange(bs, Head(indexes))
         THEN [rl |-> rl, bs |-> bs,
               err |-> Errorf(ErrIndex, <<Capacity(bs), Head(indexes)>>)]
         ELSE UpdateOnePass(rl, setBit(bs, Head(indexes), action), action, Tail(indexes))

Update(rl, bs, action, indexes) ==
    IF \E k \in 1..Len(indexes) : OutOfRange(bs, indexes[k])
    THEN LET k == Min({m \in 1..Len(indexes) : OutOfRange(bs, indexes[m])})
         IN  [rl |-> rl, bs |-> bs,
              err |-> Errorf(ErrIndex, <<Capacity(bs), indexes[k]>>)]
    ELSE LET set == SetBits(bs, action, indexes)
         IN  [rl |-> [rl EXCEPT !.EncodedList = pack(set)], bs |-> set, err |-> NoErr]

IsRevokedIndexFirst(rl, bs, status) ==
    LET csID   == TypeDef(status)[1]
        csType == TypeDef(status)[2]
        list   == Coordinates(status)[1]
        index  == Coordinates(status)[2]
    IN  IF TrimSpace(csID) = <<>>
        THEN [isIt |-> FALSE, err |-> Errorf(ErrStatusID, <<>>)]
        ELSE IF csType # TypeRevocationList2020Status
             THEN [isIt |-> FALSE,
                   err  |-> Errorf(ErrType, <<rl.Type, TypeRevocationList2020Status>>)]
        ELSE IF index < 0 \/ index >= Capacity(bs)
             THEN [isIt |-> FALSE, err |-> Errorf(ErrIndex, <<Capacity(bs), list>>)]
        ELSE IF list # rl.ID
             THEN [isIt |-> FALSE, err |-> Errorf(ErrWrongList, <<rl.ID, list>>)]
        ELSE [isIt |-> getBit(bs, index), err |-> NoErr]

IsRevoked(rl, bs, status) ==
    LET csID   == TypeDef(status)[1]
        csType == TypeDef(status)[2]
        list   == Coordinates(status)[1]
        index  == Coordinates(status)[2]
    IN  IF TrimSpace(csID) = <<>>
        THEN [isIt |-> FALSE, err |-> Errorf(ErrStatusID, <<>>)]
        ELSE IF csType # TypeRevocationList2020Status
             THEN [isIt |-> FALSE,
                   err  |-> Errorf(ErrType, <<rl.Type, TypeRevocationList2020Status>>)]
        ELSE IF list # rl.ID
             THEN [isIt |-> FALSE, err |-> Errorf(ErrWrongList, <<rl.ID, list>>)]
        ELSE IF index < 0 \/ index >= Capacity(bs)
             THEN [isIt |-> FALSE, err |-> Errorf(ErrIndex, <<Capacity(bs), list>>)]
        ELSE [isIt |-> getBit(bs, index), err |-> NoErr]

\* json.Marshal(rl): the exported fields; the bit set is not serialized.
GetBytes(rl) ==
    [syntax |-> TRUE, id |-> rl.ID, type |-> rl.Type, encodedList |-> rl.EncodedList]

-----------------------------------------------------------------------------
(* The program: the variables of a caller that hold registry values, the   *)
(* byte slice it got from BitSet(), and the arrays behind them.            *)

VARIABLES
    heap,   \* address -> the array there (NoArray: none)
    regs,   \* the caller's variable -> the RevocationList2020 value in it
    slice,  \* the address of the array of the slice BitSet() returned, or 0
    last,   \* the call that just returned: its arguments and what it returned
    hist,   \* history: per variable, the last action of its own calls on each index
    codec   \* the steps of unpack(pack(bs)) on one bit set

vars == <<heap, regs, slice, last, hist, codec>>

\* The longest index list of one Update call.
MaxIndexes == 2
\* The number of addresses.
MaxArrays == 4

Vars == {"r1", "r2"}
Addrs == 1..MaxArrays

NoArray == [n |-> -1, nz |-> {}]
\* A variable that holds no registry yet; the bitSet of a value is an address.
NoReg == [ID |-> <<>>, Type |-> "", EncodedList |-> <<>>, bitSet |-> 0]
NoHist == [tracked |-> FALSE, acts |-> {}]
CodecIdle == [pc |-> "idle"]

IdA == <<"A">>
IdB == <<"B">>
IdBlank == <<Space>>

\* The value of variable r without its bit set, and the contents of its bit set.
Val(r) == [ID |-> regs[r].ID, Type |-> regs[r].Type, EncodedList |-> regs[r].EncodedList]
Bits(r) == heap[regs[r].bitSet]
Live(r) == regs[r] # NoReg

\* The arrays something refers to; the others are garbage.
Referenced(rg, sl) == ({rg[r].bitSet : r \in Vars} \cup {sl}) \ {0}
Collect(hp, rg, sl) == [a \in Addrs |-> IF a \in Referenced(rg, sl) THEN hp[a] ELSE NoArray]
FreshAddr == Min(Addrs \ Referenced(regs, slice))

\* rl, err := f(...) with the registry kept only when err is nil: variable r
\* takes the value rl, whose bit set is a new array with contents bs.
Assign(r, rl, bs) ==
    LET a  == FreshAddr
        rg == [regs EXCEPT ![r] = [ID |-> rl.ID, Type |-> rl.Type,
                                   EncodedList |-> rl.EncodedList, bitSet |-> a]]
    IN  /\ regs' = rg
        /\ heap' = Collect([heap EXCEPT ![a] = bs], rg, slice)

Init ==
    /\ heap = [a \in Addrs |-> NoArray]
    /\ regs = [r \in Vars |-> NoReg]
    /\ slice = 0
    /\ last = [op |-> "none"]
    /\ hist = [r \in Vars |-> NoHist]
    /\ codec = CodecIdle

DoNewRevocationList(r, id, kbSize) ==
    LET res == NewRevocationList(id, kbSize)
    IN  /\ last.op = "none"
        /\ IF res.err.msg = Nil
           THEN /\ Assign(r, res.rl, res.bs)
                /\ hist' = [hist EXCEPT ![r] = [tracked |-> TRUE, acts |-> {}]]
           ELSE UNCHANGED <<heap, regs, hist>>
        /\ last' = [op |-> "NewRevocationList", r |-> r, id |-> id, kbSize |-> kbSize,
                    err |-> res.err]
        /\ UNCHANGED <<slice, codec>>

\* defect says how the document was made (see Documents); src is the
\* variable whose GetBytes() the document is, if any.
DoNewRevocationListFromJSON(r, data, defect, src) ==
    LET res == NewRevocationListFromJSON(data)
    IN  /\ last.op = "none"
        /\ IF res.err.msg = Nil
           THEN /\ Assign(r, res.rl, res.bs)
                /\ hist' = [hist EXCEPT ![r] = NoHist]
           ELSE UNCHANGED <<heap, regs, hist>>
        /\ last' = [op |-> "NewRevocationListFromJSON", r |-> r, data |-> data,
                    defect |-> defect, src |-> src, err |-> res.err]
        /\ UNCHANGED <<slice, codec>>

\* The variables other than r whose bit set is the array of r's.
Sharing(r) == {q \in Vars \ {r} : regs[q].bitSet = regs[r].bitSet}

DoUpdate(r, action, indexes) ==
    /\ last.op = "none"
    /\ Live(r)
    /\ LET res == Update(Val(r), Bits(r), action, indexes)
       IN  /\ heap' = [heap EXCEPT ![regs[r].bitSet] = res.bs]
           /\ regs' = [regs EXCEPT ![r].EncodedList = res.rl.EncodedList]
           /\ hist' = [q \in Vars |->
                         IF q = r /\ res.err.msg = Nil /\ hist[q].tracked
                         THEN [hist[q] EXCEPT !.acts =
                                 {e \in @ : \A k \in 1..Len(indexes) : indexes[k] # e[1]}
                                 \cup {<<indexes[k], action>> : k \in 1..Len(indexes)}]
                         ELSE IF q \in Sharing(r) /\ res.bs # Bits(r) THEN NoHist
                         ELSE hist[q]]
           /\ last' = [op |-> "Update", r |-> r, action |-> action, indexes |-> indexes,
                       err |-> res.err]
    /\ UNCHANGED <<slice, codec>>

DoIsRevoked(r, status) ==
    /\ last.op = "none"
    /\ Live(r)
    /\ LET res == IsRevoked(Val(r), Bits(r), status)
       IN  last' = [op |-> "IsRevoked", r |-> r, status |-> status, isIt |-> res.isIt,
                    err |-> res.err]
    /\ UNCHANGED <<heap, regs, slice, hist, codec>>

\* dst := src, the copy of a struct: the two values share the array.
DoCopy(src, dst) ==
    /\ last.op = "none"
    /\ Live(src)
    /\ src # dst
    /\ LET rg == [regs EXCEPT ![dst] = regs[src]]
       IN  /\ regs' = rg
           /\ heap' = Collect(heap, rg, slice)
    /\ hist' = [hist EXCEPT ![dst] = NoHist]
    /\ last' = [op |-> "Copy", r |-> dst, src |-> src]
    /\ UNCHANGED <<slice, codec>>

\* b := rl.BitSet()
DoBitSet(r) ==
    /\ last.op = "none"
    /\ Live(r)
    /\ slice # regs[r].bitSet
    /\ slice' = regs[r].bitSet
    /\ heap' = Collect(heap, regs, regs[r].bitSet)
    /\ last' = [op |-> "BitSet", r |-> r]
    /\ UNCHANGED <<regs, hist, codec>>

\* b[pos] = v on the slice BitSet() returned
DoSliceWrite(pos, v) ==
    /\ last.op = "none"
    /\ slice # 0
    /\ pos < heap[slice].n
    /\ ByteAt(heap[slice], pos) # v
    /\ heap' = [heap EXCEPT ![slice] = StoreByte(@, pos, v)]
    /\ hist' = [q \in Vars |-> IF regs[q].bitSet = slice THEN NoHist ELSE hist[q]]
    /\ last' = [op |-> "SliceWrite", pos |-> pos, v |-> v]
    /\ UNCHANGED <<regs, slice, codec>>

\* The caller is done with what the last call returned.
Return ==
    /\ last.op # "none"
    /\ last' = [op |-> "none"]
    /\ UNCHANGED <<heap, regs, slice, hist, codec>>

-----------------------------------------------------------------------------
(* unpack(pack(bs)), one library call at a time *)

CodecStart(bs) ==
    [pc |-> "pack", bs |-> bs, s |-> <<>>, b |-> <<>>,
     z |-> [r |-> <<>>, err |-> Nil, ferr |-> Nil], out |-> NilSlice, err |-> Nil]

CodecPack ==
    /\ codec.pc = "pack"
    /\ codec' = [codec EXCEPT !.s = pack(codec.bs), !.pc = "DecodeString"]
    /\ UNCHANGED <<heap, regs, slice, last, hist>>

CodecDecodeString ==
    /\ codec.pc = "DecodeString"
    /\ LET d == DecodeString(codec.s)
       IN  codec' = [codec EXCEPT !.b = d.b, !.err = d.err,
                                  !.pc = IF d.err # Nil THEN "done" ELSE "NewReader"]
    /\ UNCHANGED <<heap, regs, slice, last, hist>>

CodecNewReader ==
    /\ codec.pc = "NewReader"
    /\ LET zr == zlibNewReader(codec.b)
       IN  codec' = [codec EXCEPT !.z = zr.z, !.err = zr.err,
                                  !.pc = IF zr.err # Nil THEN "done" ELSE "Close"]
    /\ UNCHANGED <<heap, regs, slice, last, hist>>

CodecClose ==
    /\ codec.pc = "Close"
    /\ LET c == zlibClose(codec.z)
       IN  codec' = [codec EXCEPT !.z = c.z, !.err = c.err,
                                  !.pc = IF c.err # Nil THEN "done" ELSE "ReadAll"]
    /\ UNCHANGED <<heap, regs, slice, last, hist>>

CodecReadAll ==
    /\ codec.pc = "ReadAll"
    /\ LET res == ioReadAll(codec.z)
       IN  codec' = [codec EXCEPT !.out = res.bs, !.err = res.err, !.pc = "done"]
    /\ UNCHANGED <<heap, regs, slice, last, hist>>

-----------------------------------------------------------------------------
(* The inputs *)

KbSizes == {minBitSetSize - 1, minBitSetSize, maxBitSetSize, maxBitSetSize + 1}

\* Indexes below, inside and above the range of a bit set of cap bits.
IndexValues(cap) == {-1, 1, 8, cap - 1, cap}
IndexLists(cap) == UNION {[1..n -> IndexValues(cap)] : n \in 0..MaxIndexes}

Statuses(cap) ==
    {[ID |-> id, Type |-> type, RevocationListCredential |-> list, RevocationListIndex |-> index] :
        id \in {<<>>, IdBlank, <<"s">>},
        type \in {TypeRevocationList2020Status, TypeRevocationList2020},
        list \in {IdA, IdB},
        index \in IndexValues(cap)}
    \cup {NewCredentialStatus(list, index) : list \in {IdA, IdB}, index \in IndexValues(cap)}

Zero16 == newBitSet(minBitSetSize)
Stream16 == zlibWrite(Zero16)

\* b with its byte at k (from 1) replaced by v
Alter(b, k, v) == [b EXCEPT ![k] = v]
\* b without its last k bytes
Truncate(b, k) == SubSeq(b, 1, Len(b) - k)

\* Encoded lists and how each was made: "none" is the base64 of a complete
\* zlib stream of 16 to 128 KB, a multiple of 1 KB.
EncodedLists ==
    {[s |-> pack(bs), defect |-> "none"] :
        bs \in {Zero16, setBit(Zero16, 8, TRUE), newBitSet(maxBitSetSize)}}
    \cup
    \* another compressor's stream of 16 KB of zeros: another level in the
    \* header, two blocks
    {[s |-> EncodeToString(<<120, 1>> \o <<0>> \o U24(8 * KB) \o <<0>> \o U24(8 * KB)
                           \o <<0, 0, 0, 0>> \o Adler32(Zero16)),
      defect |-> "none"],
     [s |-> <<NewlineChar>> \o pack(Zero16), defect |-> "none"]}
    \cup
    {[s |-> Alter(pack(Zero16), 1, BadChar), defect |-> "base64"],
     [s |-> Truncate(pack(Zero16), 1), defect |-> "base64"],
     [s |-> EncodeToString(Alter(Stream16, 1, 121)), defect |-> "header"],
     [s |-> EncodeToString(Alter(Stream16, Len(Stream16), 2)), defect |-> "corrupt"],
     [s |-> EncodeToString(Alter(Stream16, 6, 1)), defect |-> "corrupt"]}
    \cup
    {[s |-> EncodeToString(Truncate(Stream16, k)), defect |-> "truncated"] :
        k \in {1, 4, 5, Len(Stream16) - 2, Len(Stream16)}}
    \cup
    {[s |-> pack(bs), defect |-> "size"] :
        bs \in {NilSlice, newBitSet(minBitSetSize - 1), newBitSet(maxBitSetSize + 1)}}
    \cup
    {[s |-> pack(bs), defect |-> "ragged"] :
        bs \in {[n |-> minBitSetSize * KB + 1, nz |-> {}],
                [n |-> maxBitSetSize * KB + KB - 1, nz |-> {<<0, 2>>}]}}

Documents ==
    {[data |-> [syntax |-> TRUE, id |-> id, type |-> type, encodedList |-> e.s],
      defect |-> e.defect] :
        id \in {IdA, IdB}, type \in {TypeRevocationList2020}, e \in EncodedLists}
    \cup
    {[data |-> [syntax |-> TRUE, id |-> id, type |-> type, encodedList |-> e.s],
      defect |-> e.defect] :
        id \in {<<>>, IdBlank, <<Space, Space>>, IdA},
        type \in {TypeRevocationList2020, TypeRevocationList2020Status, ""},
        e \in {[s |-> pack(Zero16), defect |-> "none"], [s |-> <<>>, defect |-> "truncated"]}}
    \cup
    {[data |-> [syntax |-> FALSE, id |-> <<>>, type |-> "", encodedList |-> <<>>],
      defect |-> "none"]}

CodecBitSets ==
    {[n |-> kb * KB, nz |-> nz] :
        kb \in {minBitSetSize, minBitSetSize + 1, maxBitSetSize},
        nz \in SUBSET {<<0, 1>>, <<1, 1>>, <<2, 128>>}}
    \cup
    {[n |-> kb * KB, nz |-> nz \cup {<<kb * KB - 1, 128>>}] :
        kb \in {minBitSetSize, minBitSetSize + 1, maxBitSetSize},
        nz \in SUBSET {<<0, 1>>, <<1, 1>>, <<2, 128>>}}

-----------------------------------------------------------------------------
(* The specifications *)

\* No call has returned something the caller still looks at.
Idle == last.op = "none"

\* One registry variable: create or parse, update, query.
Next ==
    \/ /\ Idle
       /\ \E id \in {IdA, IdB}, kbSize \in KbSizes : DoNewRevocationList("r1", id, kbSize)
    \/ /\ Idle
       /\ \E d \in Documents : DoNewRevocationListFromJSON("r1", d.data, d.defect, "")
    \/ /\ Idle /\ Live("r1")
       /\ \E action \in {Revoke, Reset} :
            \E indexes \in IndexLists(Capacity(Bits("r1"))) : DoUpdate("r1", action, indexes)
    \/ /\ Idle /\ Live("r1")
       /\ \E status \in Statuses(Capacity(Bits("r1"))) : DoIsRevoked("r1", status)
    \/ Return

Spec == Init /\ [][Next]_vars

\* Two registry variables and a slice: copies, BitSet() and the round trip
\* through GetBytes().
NextShare ==
    \/ /\ Idle
       /\ \E id \in {IdA, IdBlank} : DoNewRevocationList("r1", id, minBitSetSize)
    \/ /\ Idle
       /\ \E r \in Vars, action \in {Revoke, Reset} :
            /\ Live(r)
            /\ \E indexes \in {<<>>, <<1>>, <<Capacity(Bits(r))>>} : DoUpdate(r, action, indexes)
    \/ /\ Idle
       /\ \E r \in Vars : DoIsRevoked(r, NewCredentialStatus(IdA, 1))
    \/ DoCopy("r1", "r2")
    \/ \E r \in Vars : DoBitSet(r)
    \/ \E v \in {0, 2} : DoSliceWrite(0, v)
    \/ /\ Idle /\ Live("r1")
       /\ DoNewRevocationListFromJSON("r2", GetBytes(Val("r1")), "none", "r1")
    \/ Return

SpecShare == Init /\ [][NextShare]_vars

InitCodec ==
    /\ heap = [a \in Addrs |-> NoArray]
    /\ regs = [r \in Vars |-> NoReg]
    /\ slice = 0
    /\ last = [op |-> "none"]
    /\ hist = [r \in Vars |-> NoHist]
    /\ codec \in {CodecStart(bs) : bs \in CodecBitSets}

NextCodec ==
    \/ CodecPack
    \/ CodecDecodeString
    \/ CodecNewReader
    \/ CodecClose
    \/ CodecReadAll

SpecCodec == InitCodec /\ [][NextCodec]_vars

-----------------------------------------------------------------------------
(* The claims *)

Blank(id) == \A k \in 1..Len(id) : id[k] = " "

\* C1: the EncodedList of every registry value is pack of its bit set, in
\* every state a caller can observe.
C1_TokenIsPackOfBitSet ==
    \A r \in Vars : Live(r) => regs[r].EncodedList = pack(Bits(r))

\* C2: an Update call with an index below 0 or not below Capacity(), at any
\* place of its index list, returns the range error and leaves every array
\* and every registry value (the encoded list included) as before the call.
C2_UpdateAllOrNothing ==
    [][(/\ last'.op = "Update"
        /\ \E k \in 1..Len(last'.indexes) :
             \/ last'.indexes[k] < 0
             \/ last'.indexes[k] >= 8 * heap[regs[last'.r].bitSet].n)
       => (/\ last'.err.msg = ErrIndex
           /\ heap' = heap
           /\ regs' = regs)]_vars

\* An Update call failed on its second index, after a valid index whose bit
\* the call would have changed.
C2_Witness ==
    /\ last.op = "Update"
    /\ last.err.msg = ErrIndex
    /\ Len(last.indexes) = 2
    /\ last.indexes[1] = 8
    /\ last.indexes[2] = Capacity(Bits(last.r))
    /\ getBit(Bits(last.r), 8) # last.action

\* C3: IsRevoked reports the first failing check in the order blank status
\* ID, type, owning list, index range, and returns the bit with no error
\* exactly when the four checks pass.
C3_IsRevokedOrder ==
    last.op = "IsRevoked" =>
        LET st  == last.status
            rl  == regs[last.r]
            cap == 8 * Bits(last.r).n
        IN  IF Blank(st.ID) THEN last.err.msg = ErrStatusID
            ELSE IF st.Type # "RevocationList2020status" THEN last.err.msg = ErrType
            ELSE IF st.RevocationListCredential # rl.ID THEN last.err.msg = ErrWrongList
            ELSE IF st.RevocationListIndex < 0 \/ st.RevocationListIndex >= cap
                 THEN last.err.msg = ErrIndex
            ELSE /\ last.err.msg = Nil
                 /\ last.isIt = getBit(Bits(last.r), st.RevocationListIndex)

\* A status of another list with an index out of range got the wrong-list error.
C3_Witness ==
    /\ last.op = "IsRevoked"
    /\ ~Blank(last.status.ID)
    /\ last.status.Type = TypeRevocationList2020Status
    /\ last.status.RevocationListCredential # regs[last.r].ID
    /\ last.status.RevocationListIndex = Capacity(Bits(last.r))
    /\ last.err.msg = ErrWrongList

\* C4: the bit set of every registry value is a multiple of 1024 bytes long,
\* between 16 * 1024 and 128 * 1024 bytes.
C4_BitSetSize ==
    \A r \in Vars :
        Live(r) => /\ Bits(r).n % 1024 = 0
                   /\ Bits(r).n >= 16 * 1024
                   /\ Bits(r).n <= 128 * 1024

C6_RoundTrip ==
    (/\ last.op = "NewRevocationListFromJSON"
     /\ last.src = "r1"
     /\ hist["r1"].tracked)
    => /\ last.err.msg = Nil
       /\ Val(last.r) = Val("r1")
       /\ Capacity(Bits(last.r)) = Capacity(Bits("r1"))
       /\ \A st \in Statuses(Capacity(Bits("r1"))) :
            IsRevoked(Val(last.r), Bits(last.r), st) = IsRevoked(Val("r1"), Bits("r1"), st)

\* C7: unpack(pack(bs)) returns no error and bs, whole; closing the zlib
\* reader before reading it to the end loses nothing.
C7_CodecRoundTrip ==
    codec.pc = "done" =>
        /\ codec.err = Nil
        /\ codec.out = codec.bs
        /\ unpack(codec.s) = [bs |-> codec.bs, err |-> Nil]

C7_Witness ==
    /\ codec.pc = "done"
    /\ codec.bs.n = 128 * 1024
    /\ Cardinality(codec.bs.nz) = 4
    /\ codec.out.n = 128 * 1024

\* C8: NewRevocationListFromJSON returns an error for a document that is not
\* JSON, has a blank id, has another type, or has an encoded list that is not
\* base64 or not a complete, uncorrupted zlib stream; when it returns none the
\* document passed these checks and the size check.
C8_Defective ==
    \/ ~last.data.syntax
    \/ Blank(last.data.id)
    \/ last.data.type # "RevocationList2020"
    \/ last.defect \in {"base64", "header", "corrupt", "truncated"}

C8_FromJSONRejects ==
    last.op = "NewRevocationListFromJSON" =>
        /\ C8_Defective => last.err.msg # Nil
        /\ last.err.msg = Nil => ~C8_Defective /\ last.defect # "size"

\* A document whose only defect is a truncated stream was rejected.
C8_Witness ==
    /\ last.op = "NewRevocationListFromJSON"
    /\ last.data.syntax
    /\ last.data.id = IdA
    /\ last.data.type = TypeRevocationList2020
    /\ last.defect = "truncated"
    /\ last.err.msg = ErrUnexpectedEOF

\* The indexes C9 looks at: the ones the calls name and their neighbours.
C9_Indexes(cap) == {0, 1, 2, 7, 8, 9, 16, cap - 9, cap - 8, cap - 2, cap - 1}

\* C9: on a registry made by NewRevocationList and changed only by its own
\* Update calls, IsRevoked of index i returns the action of the last
\* successful call that named i, false if none did; a call changes no bit it
\* does not name, and no call changes the capacity, the ID or the type.
C9_LastWriterWins ==
    /\ [](\A r \in Vars :
            (Live(r) /\ hist[r].tracked) =>
                \A i \in C9_Indexes(Capacity(Bits(r))) :
                    IsRevoked(Val(r), Bits(r), NewCredentialStatus(regs[r].ID, i))
                      = [isIt |-> \E e \in hist[r].acts : e[1] = i /\ e[2] = Revoke,
                         err  |-> NoErr])
    /\ [][last'.op = "Update" =>
            /\ regs'[last'.r].ID = regs[last'.r].ID
            /\ regs'[last'.r].Type = regs[last'.r].Type
            /\ heap'[regs'[last'.r].bitSet].n = heap[regs[last'.r].bitSet].n
            /\ \A i \in C9_Indexes(Capacity(Bits(last'.r))) :
                 (\A k \in 1..Len(last'.indexes) : last'.indexes[k] # i)
                 => getBit(heap'[regs'[last'.r].bitSet], i) = getBit(Bits(last'.r), i)]_vars

\* A Revoke that names a set bit twice, on a registry where another index
\* was revoked and then reset.
C9_Witness ==
    /\ last.op = "Update"
    /\ last.err.msg = Nil
    /\ last.action = Revoke
    /\ last.indexes = <<1, 1>>
    /\ hist[last.r].tracked
    /\ hist[last.r].acts = {<<1, Revoke>>, <<8, Reset>>, <<Capacity(Bits(last.r)) - 1, Revoke>>}
    /\ Bits(last.r).nz = {<<0, 2>>, <<Bits(last.r).n - 1, 128>>}

\* C10: an Update on one registry value, or a write through the slice
\* BitSet() returned, changes no bit of another registry value and does not
\* make that value's EncodedList differ from the encoding of its bit set.
C10_ExclusiveOwnership ==
    [][\A q \in Vars :
         (/\ Live(q)
          /\ \/ last'.op = "SliceWrite"
             \/ last'.op = "Update" /\ last'.r # q)
         => /\ heap'[regs'[q].bitSet] = heap[regs[q].bitSet]
            /\ regs[q].EncodedList = pack(Bits(q))
                 => regs'[q].EncodedList = pack(heap'[regs'[q].bitSet])]_vars

====
